---- MODULE Spec2Model ----
(***************************************************************************)
(* HTTP Digest authentication helpers of httpbin (httpbin/helpers.py):     *)
(* H, HA1, HA2, response and check_digest_auth.                            *)
(*                                                                         *)
(* Python values are modelled as follows.                                  *)
(*   - a str is a TLA+ string; "%s" formatting and ":".join are string     *)
(*     concatenation;                                                      *)
(*   - None, True and False are the reserved tokens None, True, False,     *)
(*     which no input string equals;                                       *)
(*   - a dict is a function whose DOMAIN is the set of its keys;           *)
(*   - the outcome of a call is a record [exc, msg, val, calls]: exc = ""  *)
(*     for a normal return of val, otherwise the type of the exception     *)
(*     that escapes and its message; calls lists, in order, the functions  *)
(*     the call invoked;                                                   *)
(*   - md5(data).hexdigest() is the symbolic digest "md5(<data>)", which   *)
(*     is collision-free by construction.                                  *)
(***************************************************************************)
EXTENDS Integers, Sequences, FiniteSets, TLC

VARIABLES pc, args, out

vars == <<pc, args, out>>

(* ------------------------------ bounds -------------------------------- *)

NumUsers == 2
NumPasswords == 2
NumBodies == 2
NumNonces == 1

(* --------------------------- Python values ---------------------------- *)

None == "<NoneType>"
True == "<True>"
False == "<False>"

\* "%s" % x
Str(x) == IF x = None THEN "None" ELSE x

EmptyDict == [k \in {} |-> None]

\* dict.get(k)
get(d, k) == IF k \in DOMAIN d THEN d[k] ELSE None

Return(v, cs) == [exc |-> "", msg |-> "", val |-> v, calls |-> cs]

Raise(t, m, cs) == [exc |-> t, msg |-> m, val |-> None, calls |-> cs]

RECURSIVE JoinStr(_, _)
JoinStr(sep, xs) ==
  IF Len(xs) = 0 THEN ""
  ELSE IF Len(xs) = 1 THEN xs[1]
  ELSE xs[1] \o sep \o JoinStr(sep, Tail(xs))

\* sep.join(xs): a TypeError when an item is not a string
join(sep, xs) ==
  IF \E i \in 1..Len(xs) : xs[i] = None
  THEN Raise("TypeError", "sequence item: expected string, NoneType found", <<>>)
  ELSE Return(JoinStr(sep, xs), <<>>)

\* the first key of ks, in order, that is not a key of d ("" when none)
RECURSIVE FirstMissing(_, _)
FirstMissing(ks, d) ==
  IF Len(ks) = 0 THEN ""
  ELSE IF ks[1] \notin DOMAIN d THEN ks[1]
  ELSE FirstMissing(Tail(ks), d)

(* ------------------------- the digest helpers ------------------------- *)

H(data) == "md5(" \o data \o ")"

\* mutant: realm and username change places
HA1_realm_first(realm, username, password) ==
  H(Str(realm) \o ":" \o Str(username) \o ":" \o Str(password))

HA1(realm, username, password) ==
  H(Str(username) \o ":" \o Str(realm) \o ":" \o Str(password))

\* mutant: a qop that is not auth-int is hashed like auth
HA2_any_qop(credentails, request) ==
  IF get(credentails, "qop") # "auth-int"
  THEN IF "method" \notin DOMAIN request THEN Raise("KeyError", "method", <<>>)
       ELSE IF "uri" \notin DOMAIN request THEN Raise("KeyError", "uri", <<>>)
       ELSE Return(H(Str(request["method"]) \o ":" \o Str(request["uri"])), <<"H">>)
  ELSE LET k == FirstMissing(<<"method", "uri", "body">>, request)
       IN  IF k # "" THEN Raise("ValueError", k \o " required", <<>>)
           ELSE Return(H(Str(request["method"]) \o ":" \o Str(request["uri"])
                         \o ":" \o Str(H(request["body"]))), <<"H", "H">>)

\* mutant: auth-int hashes the method and the uri only
HA2_no_body(credentails, request) ==
  IF get(credentails, "qop") \in {"auth", "auth-int", None}
  THEN IF "method" \notin DOMAIN request THEN Raise("KeyError", "method", <<>>)
       ELSE IF "uri" \notin DOMAIN request THEN Raise("KeyError", "uri", <<>>)
       ELSE Return(H(Str(request["method"]) \o ":" \o Str(request["uri"])), <<"H">>)
  ELSE Raise("ValueError", "", <<>>)

\* mutant: under auth-int a request without body is hashed with the empty body
HA2_default_body(credentails, request) ==
  IF get(credentails, "qop") = "auth" \/ get(credentails, "qop") = None
  THEN IF "method" \notin DOMAIN request THEN Raise("KeyError", "method", <<>>)
       ELSE IF "uri" \notin DOMAIN request THEN Raise("KeyError", "uri", <<>>)
       ELSE Return(H(Str(request["method"]) \o ":" \o Str(request["uri"])), <<"H">>)
  ELSE IF get(credentails, "qop") = "auth-int"
  THEN LET k == FirstMissing(<<"method", "uri">>, request)
           body == IF "body" \in DOMAIN request THEN request["body"] ELSE ""
       IN  IF k # "" THEN Raise("ValueError", k \o " required", <<>>)
           ELSE Return(H(Str(request["method"]) \o ":" \o Str(request["uri"])
                         \o ":" \o Str(H(body))), <<"H", "H">>)
  ELSE Raise("ValueError", "", <<>>)

HA2(credentails, request) ==
  IF get(credentails, "qop") = "auth" \/ get(credentails, "qop") = None
  THEN IF "method" \notin DOMAIN request THEN Raise("KeyError", "method", <<>>)
       ELSE IF "uri" \notin DOMAIN request THEN Raise("KeyError", "uri", <<>>)
       ELSE Return(H(Str(request["method"]) \o ":" \o Str(request["uri"])), <<"H">>)
  ELSE IF get(credentails, "qop") = "auth-int"
  THEN LET k == FirstMissing(<<"method", "uri", "body">>, request)
       IN  IF k # "" THEN Raise("ValueError", k \o " required", <<>>)
           ELSE Return(H(Str(request["method"]) \o ":" \o Str(request["uri"])
                         \o ":" \o Str(H(request["body"]))), <<"H", "H">>)
  ELSE Raise("ValueError", "", <<>>)

\* mutant: nc is looked for before nonce
RequiredFields_nc_first == <<"nc", "nonce", "cnonce", "qop">>

\* for k in 'nonce', 'nc', 'cnonce', 'qop'
RequiredFields == <<"nonce", "nc", "cnonce", "qop">>

response(credentails, password, request) ==
  LET HA1_value == HA1(get(credentails, "realm"), get(credentails, "username"), password)
      HA2_out == HA2(credentails, request)
      HA2_value == HA2_out.val
      before == <<"HA1", "H", "HA2">> \o HA2_out.calls
  IN  IF HA2_out.exc # "" THEN Raise(HA2_out.exc, HA2_out.msg, before)
      ELSE IF get(credentails, "qop") = None
      THEN LET j == join(":", <<HA1_value, get(credentails, "nonce"), HA2_value>>)
           IN  IF j.exc # "" THEN Raise(j.exc, j.msg, before)
               ELSE Return(H(j.val), before \o <<"H">>)
      ELSE IF get(credentails, "qop") = "auth" \/ get(credentails, "qop") = "auth-int"
      THEN LET k == FirstMissing(RequiredFields, credentails)
               j == join(":", <<HA1_value,
                                get(credentails, "nonce"),
                                get(credentails, "nc"),
                                get(credentails, "cnonce"),
                                get(credentails, "qop"),
                                HA2_value>>)
           IN  IF k # "" THEN Raise("ValueError", k \o " required for response H", before)
               ELSE IF j.exc # "" THEN Raise(j.exc, j.msg, before)
               ELSE Return(H(j.val), before \o <<"H">>)
      ELSE Raise("ValueError", "qop value are wrong", before)

(* ----------------------- the Authorization header --------------------- *)

\* The value of a request's Authorization header is a record
\*   [present, scheme, info, params]:
\*   present  the header is sent;
\*   scheme   the first token of the value ("" for the empty value);
\*   info     a second part follows the scheme;
\*   params   what that part holds: the key=value pairs of a Digest value, the
\*            decoded username and password of a Basic value (no pairs when
\*            the base64 text does not decode to user:password).
NoHeader == [present |-> FALSE, scheme |-> "", info |-> FALSE, params |-> EmptyDict]

HeaderValue(scheme, info, params) ==
  [present |-> TRUE, scheme |-> scheme, info |-> info, params |-> params]

\* mutant: the value is parsed whether or not the header is sent
HasAuthorization_unchecked(h) == TRUE

\* bool(request.headers.get('Authorization')): the header is sent and not ''
HasAuthorization(h) == h.present /\ h.scheme # ""

NoCredentials == [some |-> FALSE, d |-> EmptyDict]

Credentials(d) == [some |-> TRUE, d |-> d]

\* werkzeug.http.parse_authorization_header, the library call of line 230:
\* None for a value without a second part, for a Basic value that does not
\* decode, for a Digest value that lacks one of username, realm, nonce, uri,
\* response, or that has a qop without nc or cnonce, and for any other
\* scheme; otherwise the dict of the fields sent.
parse_authorization_header(value) ==
  IF ~HasAuthorization(value) THEN NoCredentials
  ELSE IF ~value.info THEN NoCredentials
  ELSE IF value.scheme = "Basic"
  THEN IF DOMAIN value.params = {"username", "password"}
       THEN Credentials(value.params)
       ELSE NoCredentials
  ELSE IF value.scheme = "Digest"
  THEN IF \E key \in {"username", "realm", "nonce", "uri", "response"} :
            key \notin DOMAIN value.params
       THEN NoCredentials
       ELSE IF "qop" \in DOMAIN value.params
               /\ (get(value.params, "nc") \in {None, ""}
                   \/ get(value.params, "cnonce") \in {None, ""})
       THEN NoCredentials
       ELSE Credentials(value.params)
  ELSE NoCredentials

\* "not credentails": None, or a dict without keys
NotCredentials(c) == ~c.some \/ DOMAIN c.d = {}

\* dict(uri=request.path, body=request.data, method=request.method)
RequestDict(request) ==
  [uri |-> request.path, body |-> request.data, method |-> request.method]

\* s in lower case, for the letters a digest is written with
RECURSIVE Lower(_)
Lower(s) ==
  IF Len(s) = 0 THEN ""
  ELSE LET c == SubSeq(s, 1, 1)
           l == IF c = "M" THEN "m" ELSE IF c = "D" THEN "d" ELSE c
       IN  l \o Lower(SubSeq(s, 2, Len(s)))

\* mutant: the comparison ignores letter case
ResponseMatches_nocase(sent, expected) == Lower(sent) = Lower(expected)

\* credentails['response'] == response_hash
ResponseMatches(sent, expected) == sent = expected

\* mutant: the response is accepted only for the expected user
check_digest_auth_for_user(user, passwd, request) ==
  IF HasAuthorization(request.Authorization)
  THEN LET credentails == parse_authorization_header(request.Authorization)
           response_hash == response(credentails.d, passwd, RequestDict(request))
           parsed == <<"parse_authorization_header">>
           computed == parsed \o <<"response">> \o response_hash.calls
       IN  IF NotCredentials(credentails) THEN Return(None, parsed)
           ELSE IF response_hash.exc # ""
           THEN Raise(response_hash.exc, response_hash.msg, computed)
           ELSE IF "response" \notin DOMAIN credentails.d
           THEN Raise("KeyError", "response", computed)
           ELSE IF /\ credentails.d["response"] = response_hash.val
                   /\ get(credentails.d, "username") = user
           THEN Return(True, computed)
           ELSE Return(False, computed)
  ELSE Return(False, <<>>)

check_digest_auth(user, passwd, request) ==
  IF HasAuthorization(request.Authorization)
  THEN LET credentails == parse_authorization_header(request.Authorization)
           response_hash == response(credentails.d, passwd, RequestDict(request))
           parsed == <<"parse_authorization_header">>
           computed == parsed \o <<"response">> \o response_hash.calls
       IN  IF NotCredentials(credentails) THEN Return(None, parsed)
           ELSE IF response_hash.exc # ""
           THEN Raise(response_hash.exc, response_hash.msg, computed)
           ELSE IF "response" \notin DOMAIN credentails.d
           THEN Raise("KeyError", "response", computed)
           ELSE IF ResponseMatches(credentails.d["response"], response_hash.val)
           THEN Return(True, computed)
           ELSE Return(False, computed)
  ELSE Return(False, <<>>)

(* ------------------------------- inputs ------------------------------- *)

\* n distinct strings
Vals(prefix, n) == {prefix \o ToString(i) : i \in 1..n}

Users == Vals("user", NumUsers)
Passwords == Vals("secret", NumPasswords)
Bodies == {""} \cup Vals("body", NumBodies - 1)
Nonces == Vals("nonce", NumNonces)
Realms == {"me@kennethreitz.com"}
Methods == {"GET"}
Paths == {"/digest-auth"}
Qops == {"auth", "auth-int", "unknown-mode", "AUTH"}

\* marks a key the dict under construction does not have
Absent == "<absent>"

Opt(S) == {Absent} \cup S

\* the dict with the keys of rec that are not marked Absent
ToDict(rec) == [k \in {x \in DOMAIN rec : rec[x] # Absent} |-> rec[k]]

\* s with its last character changed
Tamper(s) == SubSeq(s, 1, Len(s) - 1) \o "0"

\* a digest in another letter case
CaseVariant(s) == "MD5" \o SubSeq(s, 4, Len(s))

\* the requests of the serving path: flask's request always has a method, a
\* path and data ('' when the request has no body)
Requests(headers) ==
  [Authorization : headers, path : Paths, data : Bodies, method : Methods]

\* the response values a client may send with the fields rec: none, junk, the
\* digest of the fields under some password, and near misses of that digest
ResponseValues(rec) ==
  LET good == {response(ToDict(rec), p, [uri |-> u, body |-> b, method |-> m]) :
                 p \in Passwords, u \in Paths, b \in Bodies, m \in Methods}
      digests == {r.val : r \in {g \in good : g.exc = ""}}
  IN  {Absent, "0"} \cup digests
        \cup {Tamper(v) : v \in digests} \cup {CaseVariant(v) : v \in digests}

DigestFields ==
  [username : Opt(Users), realm : Realms, nonce : Opt(Nonces),
   uri : Opt(Paths), qop : Opt(Qops), nc : Opt({"00000001"}),
   cnonce : Opt({"0a4f113b"})]

WithResponse(rec, r) ==
  [k \in DOMAIN rec \cup {"response"} |-> IF k = "response" THEN r ELSE rec[k]]

DigestHeaders ==
  UNION {{HeaderValue("Digest", TRUE, ToDict(WithResponse(rec, r))) :
            r \in ResponseValues(rec)} : rec \in DigestFields}

BasicHeaders ==
  {HeaderValue("Basic", TRUE, [username |-> u, password |-> p]) :
     u \in Users, p \in Passwords}

OtherHeaders ==
  {NoHeader,
   HeaderValue("", FALSE, EmptyDict),
   HeaderValue("Digest", FALSE, EmptyDict),
   HeaderValue("Basic", TRUE, EmptyDict),
   HeaderValue("Bearer", TRUE, EmptyDict)}

Headers == DigestHeaders \cup BasicHeaders \cup OtherHeaders

\* the arguments of a call of check_digest_auth and the request it serves
VerifyArgs == [user : Users, passwd : Passwords, request : Requests(Headers)]

\* the credentials dicts the helpers are called with
CredentialDicts ==
  {ToDict(rec) :
     rec \in [username : Opt(Users), realm : Opt(Realms),
              nonce : Opt(Nonces \cup {None}), qop : Opt(Qops),
              nc : Opt({"00000001"}), cnonce : Opt({"0a4f113b"})]}

\* the request dicts the helpers are called with
RequestDicts ==
  {ToDict(rec) :
     rec \in [method : Opt(Methods), uri : Opt(Paths), body : Opt(Bodies)]}

HelperArgs ==
  [credentails : CredentialDicts, password : Passwords, request : RequestDicts]

NoOutcome == [fn |-> "", exc |-> "", msg |-> "", val |-> None, calls |-> <<>>]

Outcome(fn, r) ==
  [fn |-> fn, exc |-> r.exc, msg |-> r.msg, val |-> r.val, calls |-> r.calls]

(* --------------------- the serving path: Spec ------------------------- *)

Init ==
  /\ pc = "idle"
  /\ args \in VerifyArgs
  /\ out = NoOutcome

\* a view calls check_digest_auth(user, passwd) on the current request
Verify ==
  /\ pc = "idle"
  /\ out' = Outcome("check_digest_auth",
                    check_digest_auth(args.user, args.passwd, args.request))
  /\ pc' = "done"
  /\ UNCHANGED args

Next == Verify

Spec == Init /\ [][Next]_vars

(* --------------- the helpers called directly: SpecHelpers ------------- *)

InitHelpers ==
  /\ pc = "idle"
  /\ args \in HelperArgs
  /\ out = NoOutcome

CallH ==
  /\ pc = "idle"
  /\ out' = Outcome("H", Return(H(args.password), <<>>))
  /\ pc' = "done"
  /\ UNCHANGED args

CallHA1 ==
  /\ pc = "idle"
  /\ out' = Outcome("HA1", Return(HA1(get(args.credentails, "realm"),
                                       get(args.credentails, "username"),
                                       args.password), <<"H">>))
  /\ pc' = "done"
  /\ UNCHANGED args

CallHA2 ==
  /\ pc = "idle"
  /\ out' = Outcome("HA2", HA2(args.credentails, args.request))
  /\ pc' = "done"
  /\ UNCHANGED args

CallResponse ==
  /\ pc = "idle"
  /\ out' = Outcome("response",
                    response(args.credentails, args.password, args.request))
  /\ pc' = "done"
  /\ UNCHANGED args

NextHelpers == CallH \/ CallHA1 \/ CallHA2 \/ CallResponse

SpecHelpers == InitHelpers /\ [][NextHelpers]_vars

(* ------------------------------ claims -------------------------------- *)

Verified == pc = "done" /\ out.fn = "check_digest_auth"

Called(fn) == pc = "done" /\ out.fn = fn

SentHeader == args.request.Authorization

\* the credentials the verifier works on, and the digest it expects of them
SentCredentials == parse_authorization_header(SentHeader)

ExpectedResponse ==
  response(SentCredentials.d, args.passwd, RequestDict(args.request))

\* the request with the response field of its Digest header replaced by r
WithSentResponse(request, r) ==
  [request EXCEPT !.Authorization.params =
     [k \in DOMAIN @ \cup {"response"} |-> IF k = "response" THEN r ELSE @[k]]]

\* C1 (as claimed): check_digest_auth never throws: whatever the Authorization
\* header and the request, the call returns a value and no error raised in
\* response or HA2 escapes; such a failure gives the result False.
C1_VerifyNeverThrows ==
  Verified =>
    /\ out.exc = ""
    /\ (SentHeader.present /\ SentHeader.scheme # ""
        /\ ~NotCredentials(SentCredentials) /\ ExpectedResponse.exc # ""
          => out.val = False)

\* C2: check_digest_auth returns True if and only if the parsed credentials
\* have a response field that is exactly (case-sensitively) the digest that
\* response() computes for them, the expected password and the request; and
\* from an accepted request, any other response value is not accepted.
C2_AcceptsIffResponseEqual ==
  Verified =>
    /\ (out.exc = "" /\ out.val = True)
         <=> /\ SentHeader.present /\ SentHeader.scheme # ""
             /\ ~NotCredentials(SentCredentials)
             /\ "response" \in DOMAIN SentCredentials.d
             /\ ExpectedResponse.exc = ""
             /\ SentCredentials.d["response"] = ExpectedResponse.val
    /\ (out.exc = "" /\ out.val = True)
         => \A r \in ResponseValues(SentCredentials.d) \ {SentCredentials.d["response"]} :
              LET again == check_digest_auth(args.user, args.passwd,
                                             WithSentResponse(args.request, r))
              IN  again.exc = "" /\ again.val = False

\* C2 witness: a request is accepted, and other response values exist that
\* differ from the accepted one in letter case or in one character only.
C2_Witness ==
  /\ Verified /\ out.exc = "" /\ out.val = True
  /\ CaseVariant(SentCredentials.d["response"]) \in ResponseValues(SentCredentials.d)
  /\ Tamper(SentCredentials.d["response"]) \in ResponseValues(SentCredentials.d)
  /\ CaseVariant(SentCredentials.d["response"]) # SentCredentials.d["response"]

\* C3: without an Authorization header check_digest_auth returns False and
\* calls nothing: no header parsing, no response, HA1, HA2 or H.
C3_NoHeaderNoWork ==
  Verified /\ ~SentHeader.present =>
    out.exc = "" /\ out.val = False /\ out.calls = <<>>

\* C3 witness: a request without Authorization header has been verified.
C3_Witness == Verified /\ ~SentHeader.present

\* C4 (as claimed): when the header is sent but parsing it yields no usable
\* credentials, check_digest_auth returns the boolean False, as it does for
\* a well-formed header whose response does not match.
C4_MalformedHeaderIsFalse ==
  Verified /\ SentHeader.present /\ SentHeader.scheme # ""
           /\ NotCredentials(SentCredentials)
    => out.exc = "" /\ out.val = False

\* the first of nonce, nc, cnonce, qop that the credentials lack
FirstAbsentField(c) ==
  IF "nonce" \notin DOMAIN c THEN "nonce"
  ELSE IF "nc" \notin DOMAIN c THEN "nc"
  ELSE IF "cnonce" \notin DOMAIN c THEN "cnonce"
  ELSE IF "qop" \notin DOMAIN c THEN "qop"
  ELSE ""

QopIsAuth(c) == "qop" \in DOMAIN c /\ c["qop"] \in {"auth", "auth-int"}

SuppliesMethodAndUri(r) == {"method", "uri"} \subseteq DOMAIN r

\* C5 (as claimed): response() with qop auth or auth-int, called for a request
\* with a method and a uri, fails with a missing-field error naming the first
\* of nonce, nc, cnonce, qop that the credentials lack, and produces no hash.
C5_FirstAbsentFieldNamed ==
  Called("response") /\ QopIsAuth(args.credentails)
                     /\ SuppliesMethodAndUri(args.request)
                     /\ FirstAbsentField(args.credentails) # ""
    => /\ out.exc = "ValueError"
       /\ out.msg = FirstAbsentField(args.credentails) \o " required for response H"
       /\ out.val = None

\* C5 (amended): as claimed when HA2 succeeds, that is when qop is auth or the
\* request supplies a body; with qop auth-int and no body, HA2 runs first and
\* its error, which names the body, is the one raised. No hash is produced in
\* either case.
C5_FirstAbsentFieldNamedAfterHA2 ==
  Called("response") /\ QopIsAuth(args.credentails)
                     /\ SuppliesMethodAndUri(args.request)
                     /\ FirstAbsentField(args.credentails) # ""
    => /\ out.exc = "ValueError"
       /\ out.val = None
       /\ IF args.credentails["qop"] = "auth-int" /\ "body" \notin DOMAIN args.request
          THEN /\ out.msg = "body required"
               /\ out.calls = <<"HA1", "H", "HA2">>
          ELSE /\ out.msg = FirstAbsentField(args.credentails) \o " required for response H"
               /\ out.calls = <<"HA1", "H", "HA2">>
                     \o (IF args.credentails["qop"] = "auth" THEN <<"H">> ELSE <<"H", "H">>)

\* C5 witness: response() was called with qop auth-int, a body, and neither
\* nonce nor nc in the credentials.
C5_Witness ==
  /\ Called("response")
  /\ get(args.credentails, "qop") = "auth-int"
  /\ {"method", "uri", "body"} \subseteq DOMAIN args.request
  /\ "nonce" \notin DOMAIN args.credentails
  /\ "nc" \notin DOMAIN args.credentails
  /\ out.msg = "nonce required for response H"

\* C6: for a qop that is present and neither auth nor auth-int, HA2 fails with
\* its unsupported-qop error (a ValueError that names no field), response()
\* fails with that same error, raised by HA2 before the response is put
\* together, and neither produces a hash.
C6_UnsupportedQopRejected ==
  (Called("HA2") \/ Called("response"))
    /\ "qop" \in DOMAIN args.credentails
    /\ args.credentails["qop"] \notin {"auth", "auth-int"}
    => /\ out.exc = "ValueError" /\ out.msg = ""
       /\ out.val = None
       /\ out.calls = IF out.fn = "HA2" THEN <<>> ELSE <<"HA1", "H", "HA2">>

\* C6 witness: response() was called with a qop that differs from auth in
\* letter case only, and all other fields and the request complete.
C6_Witness ==
  /\ Called("response")
  /\ get(args.credentails, "qop") = "AUTH"
  /\ {"nonce", "nc", "cnonce"} \subseteq DOMAIN args.credentails
  /\ {"method", "uri", "body"} \subseteq DOMAIN args.request

HasStrings(c, ks) == \A k \in ks : k \in DOMAIN c /\ c[k] # None

\* C7: response() returns H(ha1:nonce:ha2) when qop is absent and
\* H(ha1:nonce:nc:cnonce:qop:ha2) when qop is auth or auth-int, with
\* ha1 = H(username:realm:password), ha2 = H(method:uri) or, for auth-int,
\* H(method:uri:H(body)); and it returns whenever these fields are there.
C7_ResponseChain ==
  Called("response")
    /\ HasStrings(args.credentails, {"username", "realm", "nonce"})
    /\ {"method", "uri", "body"} \subseteq DOMAIN args.request
    => LET c == args.credentails
           r == args.request
           ha1 == H(c["username"] \o ":" \o c["realm"] \o ":" \o args.password)
           ha2 == IF get(c, "qop") = "auth-int"
                  THEN H(r["method"] \o ":" \o r["uri"] \o ":" \o H(r["body"]))
                  ELSE H(r["method"] \o ":" \o r["uri"])
       IN  /\ "qop" \notin DOMAIN c
             => out.exc = "" /\ out.val = H(ha1 \o ":" \o c["nonce"] \o ":" \o ha2)
           /\ QopIsAuth(c) /\ HasStrings(c, {"nc", "cnonce"})
             => /\ out.exc = ""
                /\ out.val = H(ha1 \o ":" \o c["nonce"] \o ":" \o c["nc"] \o ":"
                               \o c["cnonce"] \o ":" \o c["qop"] \o ":" \o ha2)

\* C7 witness: response() returned a digest for qop auth-int.
C7_Witness ==
  /\ Called("response") /\ out.exc = ""
  /\ get(args.credentails, "qop") = "auth-int"
  /\ HasStrings(args.credentails, {"username", "realm", "nonce", "nc", "cnonce"})

\* the request dict r with body b
WithBody(r, b) ==
  [k \in DOMAIN r \cup {"body"} |-> IF k = "body" THEN b ELSE r[k]]

\* C8: for requests with the same method and uri that differ in body only,
\* HA2 is H(method:uri) for both when qop is absent or auth, and differs
\* between them when qop is auth-int, where it is H(method:uri:H(body)).
C8_BodySensitivity ==
  Called("HA2") /\ {"method", "uri", "body"} \subseteq DOMAIN args.request
    /\ get(args.credentails, "qop") \in {None, "auth", "auth-int"}
    => LET r == args.request
           intQop == get(args.credentails, "qop") = "auth-int"
       IN  /\ out.exc = ""
           /\ out.val = IF intQop
                        THEN H(r["method"] \o ":" \o r["uri"] \o ":" \o H(r["body"]))
                        ELSE H(r["method"] \o ":" \o r["uri"])
           /\ \A b \in Bodies \ {r["body"]} :
                LET other == HA2(args.credentails, WithBody(r, b))
                IN  /\ other.exc = ""
                    /\ intQop => other.val # out.val
                    /\ ~intQop => other.val = out.val

\* C8 witness: HA2 returned a digest for qop auth-int and another body exists.
C8_Witness ==
  /\ Called("HA2") /\ out.exc = ""
  /\ get(args.credentails, "qop") = "auth-int"
  /\ Bodies \ {args.request["body"]} # {}

\* C9: the outcome of check_digest_auth is the same for every expected user;
\* credentials whose username is not the expected user are accepted when
\* their response matches under the expected password.
C9_ResultIgnoresExpectedUser ==
  Verified =>
    \A u \in Users :
      Outcome("check_digest_auth",
              check_digest_auth(u, args.passwd, args.request)) = out

\* C9 witness: a request was accepted whose username is not the expected user.
C9_Witness ==
  /\ Verified /\ out.exc = "" /\ out.val = True
  /\ SentCredentials.d["username"] # args.user

\* C10: for a request with a method and a uri, HA2 with qop auth-int and no
\* body fails with the missing-field error for the body and hashes nothing;
\* with qop absent or auth it returns, with or without a body.
C10_BodyRequiredForAuthInt ==
  Called("HA2") /\ SuppliesMethodAndUri(args.request)
    => /\ get(args.credentails, "qop") = "auth-int" /\ "body" \notin DOMAIN args.request
         => /\ out.exc = "ValueError" /\ out.msg = "body required"
            /\ out.val = None /\ out.calls = <<>>
       /\ get(args.credentails, "qop") \in {None, "auth"}
         => out.exc = "" /\ out.val # None

\* C10 witness: HA2 was called with qop auth-int for a request without body.
C10_Witness ==
  /\ Called("HA2") /\ SuppliesMethodAndUri(args.request)
  /\ get(args.credentails, "qop") = "auth-int"
  /\ "body" \notin DOMAIN args.request

====
